---- MODULE Spec2Model ----
(***************************************************************************)
(* A model of the stacked-bar chart pipeline of claude-usage               *)
(* (src/charts.py, print_stacked_bar_chart) together with the aggregation  *)
(* that produces its input (src/stats.py).                                 *)
(*                                                                         *)
(* Time is counted in minutes of local time since an epoch that falls on   *)
(* a midnight.  The keys of a time series are hour-truncated timestamps.   *)
(* Token counts are non-negative integers.  The float expressions of the   *)
(* code are evaluated exactly: int(v / d * k) is modelled as floor(v*k/d). *)
(* Double rounding can make the code's result one lower than the exact     *)
(* floor when v*k/d is a whole number; it never makes it higher.           *)
(*                                                                         *)
(* A printed line is the sequence of the pieces appended to it; a piece    *)
(* is a glyph name (ANSI colour escapes are folded into the name) or a     *)
(* tuple standing for a formatted value.                                   *)
(***************************************************************************)
EXTENDS Integers, Sequences, FiniteSets, TLC

VARIABLES
    time_series,       \* the caller's mapping: hour key -> breakdown record
    pc,                \* "idle" before the call, then how the call ended
    call,              \* the arguments of the call
    axis,              \* sorted_times as generated by the loop of lines 37-41
    sorted_times,      \* sorted_times as charted (after line 55)
    breakdown_data,    \* per-bucket breakdowns (lines 58-74)
    totals,            \* per-bucket totals of the chart type
    min_value,         \* Y-axis minimum (line 111)
    max_rounded,       \* max_value as line 112 sets it, before lines 115-116
    max_value,         \* Y-axis maximum (lines 112-116)
    scaled_breakdown,  \* per-bucket scaled heights (lines 139-155)
    chart_columns,     \* the ChartColumn sequence (lines 160-175)
    daily_totals,      \* the DayTotal sequence (lines 180-205)
    out,               \* the lines printed, in order
    seen,              \* the earlier calls and what each printed (history)
    format_value,      \* the argument of a formatting.py function
    formatted,         \* the function applied to value and what it returned
    monitor,           \* args.monitor, in seconds (claude-usage.py line 23)
    monitor_pc,        \* where main() is (claude-usage.py lines 85-158)
    clock,             \* what time.time() returns, in ticks
    now,               \* the reading of line 111, in ticks
    next_refresh_time, \* the auto-refresh deadline, in ticks
    command,           \* the line read at line 132
    event,             \* what the latest step of main() did (history)
    last_refresh,      \* the clock when the latest refresh completed (history)
    last_kind,         \* which refresh was the latest (history)
    prev_kind,         \* which refresh was the one before it (history)
    prev_refresh       \* the clock when that one completed (history)

vars == <<time_series, pc, call, axis, sorted_times, breakdown_data, totals, min_value,
          max_rounded, max_value, scaled_breakdown, chart_columns, daily_totals, out, seen,
          format_value, formatted, monitor, monitor_pc, clock, now,
          next_refresh_time, command, event, last_refresh, last_kind, prev_kind,
          prev_refresh>>

(***************************************************************************)
(* Bounds of the model.                                                    *)
(***************************************************************************)
MaxHeight == 3
MaxRepeats == 3
BaseDay == 200

(***************************************************************************)
(* Program constants.                                                      *)
(***************************************************************************)
MaxColumns == 500
WidenBy == 5000

ChartTypes == {"all", "io", "cache"}

ZeroBreakdown ==
    [input |-> 0, output |-> 0, cache_creation |-> 0, cache_read |-> 0]

Max(a, b) == IF a >= b THEN a ELSE b

SetMax(S) == CHOOSE x \in S : \A y \in S : y <= x
SetMin(S) == CHOOSE x \in S : \A y \in S : x <= y

(***************************************************************************)
(* datetime helpers.                                                       *)
(***************************************************************************)
\* datetime.replace(minute=0, second=0, microsecond=0)
TruncateToHour(t) == t - (t % 60)

\* datetime.hour
HourOf(t) == (t \div 60) % 24

\* datetime.minute
MinuteOf(t) == t % 60

\* the calendar day a timestamp falls on
DayOf(t) == t \div 1440

(***************************************************************************)
(* stats.py: calculate_token_breakdown_time_series.                        *)
(* usage_data is a sequence of entries [timestamp, usage]; the result maps *)
(* each hour that has an entry to the sums of its entries' four counters.  *)
(***************************************************************************)
RECURSIVE SumUsage(_, _, _, _)
SumUsage(usage_data, key, field, i) ==
    IF i > Len(usage_data) THEN 0
    ELSE (IF TruncateToHour(usage_data[i].timestamp) = key
            THEN usage_data[i].usage[field] ELSE 0)
         + SumUsage(usage_data, key, field, i + 1)

CalculateTokenBreakdownTimeSeries(usage_data) ==
    LET keys == {TruncateToHour(usage_data[i].timestamp) :
                    i \in 1..Len(usage_data)}
    IN [k \in keys |->
          [input          |-> SumUsage(usage_data, k, "input_tokens", 1),
           output         |-> SumUsage(usage_data, k, "output_tokens", 1),
           cache_creation |-> SumUsage(usage_data, k, "cache_creation_input_tokens", 1),
           cache_read     |-> SumUsage(usage_data, k, "cache_read_input_tokens", 1)]]

(***************************************************************************)
(* charts.py: print_stacked_bar_chart, the series normalizer (lines 17-84).*)
(***************************************************************************)
\* line 22 and line 29: all_sorted_times[-1]
LastTime(ts) == SetMax(DOMAIN ts)

\* line 30: last_time - timedelta(days=days_back)
StartTime(last_time, days_back) == last_time - days_back * 1440

\* the loop of lines 39-41 with < in place of <=
AxisLengthExclusive(start, last_time) ==
    IF start >= last_time THEN 0 ELSE (last_time - 1 - start) \div 60 + 1

\* the number of iterations of the loop of lines 39-41
AxisLength(start, last_time) ==
    IF start > last_time THEN 0 ELSE (last_time - start) \div 60 + 1

\* lines 37-41: every hour from start while current_time <= last_time
HourlyAxis(start, last_time) ==
    [i \in 1..AxisLength(start, last_time) |-> start + 60 * (i - 1)]

\* line 54: step = max(1, len(sorted_times) // 500)
Step(n) == Max(1, n \div MaxColumns)

\* line 55 keeping the last element of every group of step elements
SliceGroupEnds(s, step) ==
    [k \in 1..(Len(s) \div step) |-> s[k * step]]

\* line 55: sorted_times[::step]
Slice(s, step) ==
    [k \in 1..((Len(s) + step - 1) \div step) |-> s[(k - 1) * step + 1]]

\* lines 48-55
Resample(s) == IF Len(s) > MaxColumns THEN Slice(s, Step(Len(s))) ELSE s

\* lines 59-66 reading time_series[time] without the test of line 60: the
\* default-creating mapping of stats.py line 150 gains a zero bucket for
\* every hour it is asked for
SeriesAfterIndexing(ts, times) ==
    [t \in DOMAIN ts \cup {times[i] : i \in 1..Len(times)} |->
        IF t \in DOMAIN ts THEN ts[t] ELSE ZeroBreakdown]

\* lines 59-66: the mapping after the lookups of the loop; `time in
\* time_series` and .get() read the mapping and add no key
SeriesAfterLookups(ts, times) == ts

\* lines 61-74: the bucket's breakdown, all zero when the hour has no key
BreakdownAt(ts, t) == IF t \in DOMAIN ts THEN ts[t] ELSE ZeroBreakdown

\* lines 77-82: the bucket's total for the chart type
Total(b, chart_type) ==
    IF chart_type = "io" THEN b.input + b.output
    ELSE IF chart_type = "cache" THEN b.cache_creation + b.cache_read
    ELSE b.input + b.output + b.cache_creation + b.cache_read

(***************************************************************************)
(* The scale calculator (lines 86-116).                                    *)
(***************************************************************************)
\* lines 93-104.  The model checker's integers are 32 bits wide, so the 5B
\* threshold and unit are written as products; the token counts of the
\* model stay below 2^31 and never enter the 5B tier.
UnitOf(value) ==
    IF value \div 1000 >= 5000000 THEN 1000 * 5000000
    ELSE IF value >= 5000000 THEN 5000000
    ELSE IF value >= 5000 THEN 5000
    ELSE 5

\* lines 91-109 always taking the branch of line 109
RoundTo5MultipleDown(value, round_up) ==
    (value \div UnitOf(value)) * UnitOf(value)

\* lines 91-109
RoundTo5Multiple(value, round_up) ==
    IF round_up
      THEN ((value + UnitOf(value) - 1) \div UnitOf(value)) * UnitOf(value)
      ELSE (value \div UnitOf(value)) * UnitOf(value)

\* lines 87-88
RawMax(tot) == IF Len(tot) > 0 THEN SetMax({tot[i] : i \in 1..Len(tot)}) ELSE 1
RawMin(tot) == IF Len(tot) > 0 THEN SetMin({tot[i] : i \in 1..Len(tot)}) ELSE 0

\* line 111
MinValue(tot) == RoundTo5Multiple(RawMin(tot), FALSE)

\* lines 112-116 without the widening of lines 115-116
MaxValueNotWidened(tot) == RoundTo5Multiple(RawMax(tot), TRUE)

\* lines 112-116
MaxValue(tot) ==
    IF RoundTo5Multiple(RawMax(tot), TRUE) = MinValue(tot)
      THEN MinValue(tot) + WidenBy
      ELSE RoundTo5Multiple(RawMax(tot), TRUE)

(***************************************************************************)
(* Scaling (lines 139-155) and the column layout (lines 160-175).          *)
(***************************************************************************)
\* lines 151-154 rounding up instead of truncating
ScaledHeightCeil(value, lo, hi, height) ==
    IF hi = lo THEN 0
    ELSE ((value - 0) * (height - 1) + (hi - lo) - 1) \div (hi - lo)

\* lines 151-154: int((value - 0) / (max_value - min_value) * (chart_height - 1))
ScaledHeight(value, lo, hi, height) ==
    IF hi = lo THEN 0 ELSE ((value - 0) * (height - 1)) \div (hi - lo)

\* lines 140-155
ScaledBreakdown(b, lo, hi, height) ==
    [input          |-> ScaledHeight(b.input, lo, hi, height),
     output         |-> ScaledHeight(b.output, lo, hi, height),
     cache_creation |-> ScaledHeight(b.cache_creation, lo, hi, height),
     cache_read     |-> ScaledHeight(b.cache_read, lo, hi, height)]

Separator == [type |-> "separator", data |-> 0]
DataColumn(i) == [type |-> "data", data |-> i]

\* line 160 with the list kept from the call before
StaleColumns == chart_columns

\* line 160: chart_columns = [], a fresh list in every call
InitialColumns == <<>>

\* lines 165-175 without the test i > 0
ColumnsOfAlways(times, i) ==
    (IF HourOf(times[i]) = 0 /\ MinuteOf(times[i]) = 0
       THEN <<Separator>> ELSE <<>>) \o <<DataColumn(i)>>

\* lines 165-175, one iteration; data indices count from 1, so the code's
\* i > 0 reads i > 1
ColumnsOf(times, i) ==
    (IF HourOf(times[i]) = 0 /\ MinuteOf(times[i]) = 0 /\ i > 1
       THEN <<Separator>> ELSE <<>>) \o <<DataColumn(i)>>

\* lines 164-175: the iterations lo..hi in order (split in halves to keep
\* the evaluation shallow)
RECURSIVE BuildColumns(_, _, _)
BuildColumns(times, lo, hi) ==
    IF lo > hi THEN <<>>
    ELSE IF lo = hi THEN ColumnsOf(times, lo)
    ELSE BuildColumns(times, lo, (lo + hi) \div 2)
         \o BuildColumns(times, (lo + hi) \div 2 + 1, hi)

(***************************************************************************)
(* Strings and number formatting (src/formatting.py).  A string is the     *)
(* sequence of its characters.                                             *)
(*                                                                         *)
(* value / 10^a is a double: the quotient rounded to 53 significant bits.  *)
(* Python prints the exact value of that double, rounded half to even, so  *)
(* a quotient whose decimals end exactly half-way between two printable    *)
(* values is printed according to the side of it the double lies on.       *)
(***************************************************************************)
Spaces(n) == [i \in 1..n |-> " "]

\* str.ljust(width)
LJust(s, width) == s \o Spaces(width - Len(s))

\* the right alignment of a format width, f"{x:5d}"
RJust(s, width) == Spaces(width - Len(s)) \o s

DigitChars == <<"0", "1", "2", "3", "4", "5", "6", "7", "8", "9">>

\* str(n) of a natural number
RECURSIVE Digits(_)
Digits(n) ==
    IF n < 10 THEN <<DigitChars[n + 1]>>
    ELSE Append(Digits(n \div 10), DigitChars[(n % 10) + 1])

\* n as exactly width digits, leading zeros kept
RECURSIVE ZeroPadded(_, _)
ZeroPadded(n, width) ==
    IF width = 0 THEN <<>>
    ELSE Append(ZeroPadded(n \div 10, width - 1), DigitChars[(n % 10) + 1])

RECURSIVE Pow(_, _)
Pow(b, k) == IF k = 0 THEN 1 ELSE b * Pow(b, k - 1)

\* floor(log2(n)) of n >= 1
RECURSIVE Log2(_)
Log2(n) == IF n < 2 THEN 0 ELSE 1 + Log2(n \div 2)

\* (x * 2^k) mod m, doubling k times
RECURSIVE MulPow2Mod(_, _, _)
MulPow2Mod(x, k, m) ==
    IF k = 0 THEN x % m ELSE MulPow2Mod((2 * x) % m, k - 1, m)

\* The double value / 10^a (value >= 10^a) against the exact quotient:
\* -1 below it, 0 equal, 1 above it.  The quotient times 2^s, with
\* s = 52 - floor(log2(quotient)), is value * 2^(s-a) / 5^a; the double is
\* that number rounded to the nearest integer.
DoubleSide(value, a) ==
    LET m == Pow(5, a)
        r == MulPow2Mod(value % m, 52 - Log2(value \div Pow(10, a)) - a, m)
    IN IF r = 0 THEN 0 ELSE IF 2 * r < m THEN 0 - 1 ELSE 1

\* value / 10^a in units of 10^-d, as f"{value / 10**a:.{d}f}" rounds it
RoundedDecimals(value, a, d) ==
    LET u == Pow(10, a - d)
        lo == value \div u
        rem == value % u
    IN IF 2 * rem < u THEN lo
       ELSE IF 2 * rem > u THEN lo + 1
       ELSE IF DoubleSide(value, a) < 0 THEN lo
       ELSE IF DoubleSide(value, a) > 0 THEN lo + 1
       ELSE IF lo % 2 = 0 THEN lo ELSE lo + 1

\* f"{value / 10**a:.{d}f}"
Fixed(value, a, d) ==
    Digits(RoundedDecimals(value, a, d) \div Pow(10, d))
    \o <<".">>
    \o ZeroPadded(RoundedDecimals(value, a, d) % Pow(10, d), d)

\* formatting.py lines 15-21 and 24-30: one tier of format_y_axis_value
YAxisTier(value, a, suffix) ==
    IF value \div Pow(10, a) >= 100
      THEN RJust(Digits(value \div Pow(10, a)), 3) \o <<" ", suffix>>
    ELSE IF value \div Pow(10, a) >= 10
      THEN <<" ">> \o RJust(Digits(value \div Pow(10, a)), 2) \o <<" ", suffix>>
    ELSE RJust(Fixed(value, a, 1), 3) \o <<" ", suffix>>

\* formatting.py lines 11-33, for a whole number of tokens
FormatYAxisValue(value) ==
    IF value >= 1000000 THEN YAxisTier(value, 6, "M")
    ELSE IF value >= 1000 THEN YAxisTier(value, 3, "K")
    ELSE RJust(Digits(value), 5)

\* one tier of format_total_value with the decimals of format_y_axis_value:
\* one decimal below 10 as well
TotalTierOneDecimal(value, a, suffix) ==
    IF value \div Pow(10, a) >= 100
      THEN Append(Digits(value \div Pow(10, a)), suffix)
    ELSE Append(Fixed(value, a, 1), suffix)

\* formatting.py lines 40-46, 49-55 and 58-64: one tier of format_total_value
TotalTier(value, a, suffix) ==
    IF value \div Pow(10, a) >= 100
      THEN Append(Digits(value \div Pow(10, a)), suffix)
    ELSE IF value \div Pow(10, a) >= 10
      THEN Append(Fixed(value, a, 1), suffix)
    ELSE Append(Fixed(value, a, 2), suffix)

\* formatting.py lines 36-67
FormatTotalValue(value) ==
    IF value >= 1000000000 THEN TotalTier(value, 9, "B")
    ELSE IF value >= 1000000 THEN TotalTier(value, 6, "M")
    ELSE IF value >= 1000 THEN TotalTier(value, 3, "K")
    ELSE Digits(value)

(***************************************************************************)
(* The printed lines.  A line is a record: its kind, two numbers (the      *)
(* numerator and denominator of a row's Y-axis value, or the data behind a *)
(* summary line) and the pieces appended to it, left to right.             *)
(***************************************************************************)
Line(kind, a, b, cells) == [kind |-> kind, a |-> a, b |-> b, cells |-> cells]

Text(s) == Line("text", 0, 0, <<s>>)
Blank == Line("text", 0, 0, <<>>)

\* lines 18 and 25, line 44
NoSeriesMessage == Text("No time series data available.")
NoDataMessage == Text("No data available.")
NotEnoughMessage == Text("Not enough data points for chart.")

\* line 51
AdjustNote(n) == Line("note", n, MaxColumns, <<"Note: Adjusting interval">>)

\* lines 122-135
TitleLines(chart_type, show_x_axis) ==
    (IF chart_type = "io"
       THEN <<Blank, Text("Input + Output Tokens Over Time (1-hour intervals, Local Time)"),
              Text("Y-axis: Input and Output token consumption")>>
     ELSE IF chart_type = "cache"
       THEN <<Blank, Text("Cache Tokens Over Time (1-hour intervals, Local Time)"),
              Text("Y-axis: Cache Output and Cache Input token consumption")>>
     ELSE <<Blank, Text("Token Usage Breakdown Over Time (1-hour intervals, Local Time)"),
            Text("Y-axis: Token consumption (all token types)")>>)
    \o (IF show_x_axis
          THEN <<Text("X-axis: Time (each day has 24 data points, ticks at 6-hour intervals)"),
                 Blank>>
          ELSE <<Blank>>)

\* line 178 and line 372: "=" * (chart_width + 10)
RuleLine(chart_width) == Line("rule", 0, 0, [i \in 1..(chart_width + 10) |-> "="])

\* lines 286-315 with the cache bands of a 'cache' chart stacked on top of
\* the hidden input and output heights
CellCacheAboveHidden(chart_type, sb, row) ==
    IF chart_type = "io" THEN
        IF row < sb.input THEN "cyan_full"
        ELSE IF row < sb.input + sb.output THEN "green_dark"
        ELSE " "
    ELSE IF chart_type = "cache" THEN
        IF row < sb.input + sb.output THEN " "
        ELSE IF row < sb.input + sb.output + sb.cache_creation
          THEN "orange_medium"
        ELSE IF row < sb.input + sb.output + sb.cache_creation + sb.cache_read
          THEN "full"
        ELSE " "
    ELSE
        IF row < sb.input THEN "cyan_full"
        ELSE IF row < sb.input + sb.output THEN "green_dark"
        ELSE IF row < sb.input + sb.output + sb.cache_creation THEN "orange_medium"
        ELSE IF row < sb.input + sb.output + sb.cache_creation + sb.cache_read
          THEN "full_light"
        ELSE " "

\* lines 286-315: the piece a data column appends to the row
Cell(chart_type, sb, row) ==
    IF chart_type = "io" THEN
        IF row < sb.input THEN "cyan_full"
        ELSE IF row < sb.input + sb.output THEN "green_dark"
        ELSE " "
    ELSE IF chart_type = "cache" THEN
        IF row < sb.cache_creation THEN "orange_medium"
        ELSE IF row < sb.cache_creation + sb.cache_read THEN "full"
        ELSE " "
    ELSE
        IF row < sb.input THEN "cyan_full"
        ELSE IF row < sb.input + sb.output THEN "green_dark"
        ELSE IF row < sb.input + sb.output + sb.cache_creation THEN "orange_medium"
        ELSE IF row < sb.input + sb.output + sb.cache_creation + sb.cache_read
          THEN "full_light"
        ELSE " "

\* lines 286-315: the characters of a piece that take a cell of the
\* terminal (the colour escapes take none)
VisibleWidth(piece) == IF piece = "full_light" THEN 2 ELSE 1

\* lines 258-317: one row; the label is the value (a / b), then " |"
RowLine(row, columns, scaled, lo, hi, height, chart_type) ==
    Line("row", lo * (height - 1) + (hi - lo) * row, height - 1,
         [c \in 1..Len(columns) |->
            IF columns[c].type = "separator" THEN "|"
            ELSE Cell(chart_type, scaled[columns[c].data], row)])

\* lines 258-317: rows chart_height-1 down to 0
BodyLines(columns, scaled, lo, hi, height, chart_type) ==
    [k \in 1..height |->
        RowLine(height - k, columns, scaled, lo, hi, height, chart_type)]

\* lines 321-327
XAxisLine(columns) ==
    Line("xaxis", 0, 0,
         [c \in 1..Len(columns) |->
            IF columns[c].type = "separator" THEN "junction" ELSE "rule"])

\* lines 338-344: the label of a data column, "" when it has none
HourLabel(t) ==
    IF HourOf(t) = 6 THEN <<"0", "6">>
    ELSE IF HourOf(t) = 12 THEN <<"1", "2">>
    ELSE IF HourOf(t) = 18 THEN <<"1", "8">>
    ELSE <<>>

\* line 347
MaxLabelLen(times) ==
    IF \E i \in 1..Len(times) : HourOf(times[i]) \in {6, 12, 18} THEN 2 ELSE 0

\* lines 352-368 printing labels[label_idx][0] on every line
LabelLineFirstChar(char_idx, columns, times) ==
    Line("labels", 0, 0,
         [c \in 1..Len(columns) |->
            IF columns[c].type = "separator" THEN "|"
            ELSE IF char_idx <= Len(HourLabel(times[columns[c].data]))
              THEN HourLabel(times[columns[c].data])[1]
            ELSE " "])

\* lines 352-368
LabelLine(char_idx, columns, times) ==
    Line("labels", 0, 0,
         [c \in 1..Len(columns) |->
            IF columns[c].type = "separator" THEN "|"
            ELSE IF char_idx <= Len(HourLabel(times[columns[c].data]))
              THEN HourLabel(times[columns[c].data])[char_idx]
            ELSE " "])

\* lines 330-374
TailLines(columns, times, show_x_axis) ==
    IF show_x_axis
      THEN <<Blank>>
           \o [k \in 1..MaxLabelLen(times) |-> LabelLine(k, columns, times)]
           \o <<Blank, RuleLine(Len(columns)),
                Line("span", times[1], times[Len(times)],
                     <<"Total time span", "Data points">>),
                Text("Legend")>>
      ELSE <<>>

(***************************************************************************)
(* Daily totals (lines 180-205).  Column indices count from 0 as in the    *)
(* code: the column at position c of chart_columns has col_idx = c - 1.    *)
(***************************************************************************)
\* current_day_start is None
None == 0 - 1

DayTotal(mid_col, total, day_start) ==
    [mid_col |-> mid_col, total |-> total, day_start |-> day_start]

\* lines 181-184
FirstDayState ==
    [daily |-> <<>>, start |-> None, total |-> 0, start_col |-> 0]

\* lines 186-200 without the reset of line 193: the total keeps running
\* over the separator
DayStepRunningTotal(st, columns, times, tot, c) ==
    IF columns[c].type = "separator"
      THEN [daily |-> IF st.start # None
                        THEN Append(st.daily,
                                    DayTotal((st.start_col + (c - 1)) \div 2,
                                             st.total, st.start))
                        ELSE st.daily,
            start |-> None,
            total |-> st.total,
            start_col |-> (c - 1) + 1]
      ELSE [daily |-> st.daily,
            start |-> IF st.start = None THEN times[columns[c].data]
                      ELSE st.start,
            total |-> st.total + tot[columns[c].data],
            start_col |-> IF st.start = None THEN c - 1 ELSE st.start_col]

\* lines 186-200: one iteration of the loop, at position c
DayStep(st, columns, times, tot, c) ==
    IF columns[c].type = "separator"
      THEN [daily |-> IF st.start # None
                        THEN Append(st.daily,
                                    DayTotal((st.start_col + (c - 1)) \div 2,
                                             st.total, st.start))
                        ELSE st.daily,
            start |-> None,
            total |-> 0,
            start_col |-> (c - 1) + 1]
      ELSE [daily |-> st.daily,
            start |-> IF st.start = None THEN times[columns[c].data]
                      ELSE st.start,
            total |-> st.total + tot[columns[c].data],
            start_col |-> IF st.start = None THEN c - 1 ELSE st.start_col]

\* lines 186-200: the iterations lo..hi in order, from state st (the state
\* after the first half is computed, then the second half runs from it)
RECURSIVE WalkColumns(_, _, _, _, _, _)
WalkColumns(st, columns, times, tot, lo, hi) ==
    IF lo > hi THEN st
    ELSE IF lo = hi THEN DayStep(st, columns, times, tot, lo)
    ELSE CHOOSE last \in
            {WalkColumns(half, columns, times, tot, (lo + hi) \div 2 + 1, hi) :
                half \in {WalkColumns(st, columns, times, tot, lo,
                                      (lo + hi) \div 2)}} : TRUE

\* lines 202-205: the last day
LastDay(st, width) ==
    IF st.start # None
      THEN Append(st.daily,
                  DayTotal((st.start_col + width) \div 2, st.total, st.start))
      ELSE st.daily

\* lines 180-205
DailyTotals(columns, times, tot) ==
    LastDay(WalkColumns(FirstDayState, columns, times, tot, 1, Len(columns)),
            Len(columns))

(***************************************************************************)
(* The header lines (lines 208-255).  The epoch of the model's clock is    *)
(* the midnight that opens a Monday, 1 January of a common year; the       *)
(* timestamps of the model stay within that year.                          *)
(***************************************************************************)
\* line 212
WeekdayAbbr ==
    << <<"M", "o", "n">>, <<"T", "u", "e">>, <<"W", "e", "d">>,
       <<"T", "h", "u">>, <<"F", "r", "i">>, <<"S", "a", "t">>,
       <<"S", "u", "n">> >>

\* datetime.weekday(), Monday = 0
Weekday(t) == DayOf(t) % 7

\* the days of the year before each month
DaysBeforeMonth == <<0, 31, 59, 90, 120, 151, 181, 212, 243, 273, 304, 334>>

\* datetime.month
MonthOf(t) == Cardinality({m \in 1..12 : DaysBeforeMonth[m] <= DayOf(t)})

\* datetime.day
DayOfMonth(t) == DayOf(t) - DaysBeforeMonth[MonthOf(t)] + 1

\* lines 215-217: f"{weekday} : {total_str}"
WeekdayTotal(total, day_start) ==
    WeekdayAbbr[Weekday(day_start) + 1] \o <<" ", ":", " ">>
    \o FormatTotalValue(total)

\* line 220: day_start.strftime(' %m / %d')
DateStr(day_start) ==
    <<" ">> \o ZeroPadded(MonthOf(day_start), 2) \o <<" ", "/", " ">>
    \o ZeroPadded(DayOfMonth(day_start), 2)

\* str.index(ch), counted from 0
IndexOf(s, ch) == SetMin({i \in 1..Len(s) : s[i] = ch}) - 1

\* lines 223-234: the index : and / share after the shorter prefix is padded
AlignedIdx(weekday_total, date_str) ==
    Max(IndexOf(weekday_total, ":"), IndexOf(date_str, "/"))

\* lines 229-239: one label, padded in front up to idx and behind to max_len
AlignedLabel(s, ch, idx, max_len) ==
    LJust(Spaces(idx - IndexOf(s, ch)) \o s, max_len)

\* line 237, after the padding of lines 227-234
MaxLen(weekday_total, date_str) ==
    Max(AlignedIdx(weekday_total, date_str) - IndexOf(weekday_total, ":")
            + Len(weekday_total),
        AlignedIdx(weekday_total, date_str) - IndexOf(date_str, "/")
            + Len(date_str))

\* lines 208-210
FirstHeader ==
    [weekday_line |-> Spaces(7), date_line |-> Spaces(7), prev_end |-> 0]

\* lines 245-248: the spaces added when padding > 0
Padding(start_pos, prev_end) ==
    IF start_pos - prev_end > 0 THEN Spaces(start_pos - prev_end) ELSE <<>>

\* lines 214-252: one iteration of the loop
HeaderStep(h, day) ==
    LET weekday_total == WeekdayTotal(day.total, day.day_start)
        date_str == DateStr(day.day_start)
        idx == AlignedIdx(weekday_total, date_str)
        max_len == MaxLen(weekday_total, date_str)
        start_pos == day.mid_col - idx
    IN [weekday_line |-> h.weekday_line \o Padding(start_pos, h.prev_end)
                         \o AlignedLabel(weekday_total, ":", idx, max_len),
        date_line |-> h.date_line \o Padding(start_pos, h.prev_end)
                      \o AlignedLabel(date_str, "/", idx, max_len),
        prev_end |-> start_pos + max_len]

\* lines 214-252: the iterations lo..hi in order, from h
RECURSIVE WalkDays(_, _, _, _)
WalkDays(h, daily, lo, hi) ==
    IF lo > hi THEN h
    ELSE IF lo = hi THEN HeaderStep(h, daily[lo])
    ELSE CHOOSE last \in
            {WalkDays(half, daily, (lo + hi) \div 2 + 1, hi) :
                half \in {WalkDays(h, daily, lo, (lo + hi) \div 2)}} : TRUE

\* lines 254-255: print(weekday_line), print(date_line)
HeaderOf(h) ==
    <<Line("weekday", 0, 0, h.weekday_line), Line("date", 0, 0, h.date_line)>>

\* lines 208-255: the two day-total header lines
HeaderLines(daily) == HeaderOf(WalkDays(FirstHeader, daily, 1, Len(daily)))

(***************************************************************************)
(* The inputs.                                                             *)
(***************************************************************************)
Usage(i, o, cc, cr) ==
    [input_tokens |-> i, output_tokens |-> o,
     cache_creation_input_tokens |-> cc, cache_read_input_tokens |-> cr]

UZero == Usage(0, 0, 0, 0)
USmall == Usage(103, 0, 0, 0)
UMixed == Usage(3000, 2000, 4000, 9000)
UNine == Usage(9000, 0, 0, 0)
UBig == Usage(6000000, 1, 0, 0)

\* the hour of day of the latest entry
LastHours == {0, 1, 13, 23}

\* an entry logged 17 minutes into hour h (counted from the epoch)
Entry(h, u) == [timestamp |-> h * 60 + 17, usage |-> u]

\* one entry in the latest hour
SingleLog(h, u) == <<Entry(BaseDay * 24 + h, u)>>

\* two entries 30 hours apart
PairLog(h, u, v) == <<Entry(BaseDay * 24 + h - 30, u), Entry(BaseDay * 24 + h, v)>>

\* an entry in every hour of the last 48 hours, alternating two usages
DenseLog(h, u, v) ==
    [k \in 1..49 |-> Entry(BaseDay * 24 + h - 49 + k, IF k % 2 = 1 THEN u ELSE v)]

\* 100, 5000 and 5000000 input tokens in the last three hours
ScaleLog(h) ==
    <<Entry(BaseDay * 24 + h - 2, Usage(100, 0, 0, 0)),
      Entry(BaseDay * 24 + h - 1, Usage(5000, 0, 0, 0)),
      Entry(BaseDay * 24 + h, Usage(5000000, 0, 0, 0))>>

UsageLogs ==
    {<<>>, ScaleLog(13)}
    \cup {SingleLog(h, u) : h \in LastHours, u \in {UZero, UMixed, UBig}}
    \cup {PairLog(h, p[1], p[2]) :
            h \in LastHours, p \in {<<USmall, UMixed>>, <<UMixed, UZero>>}}
    \cup {DenseLog(h, p[1], p[2]) :
            h \in LastHours,
            p \in {<<USmall, USmall>>, <<UNine, UNine>>, <<UMixed, USmall>>,
                   <<UMixed, UMixed>>}}

DaysBackValues == {0, 1, 2, 10, 21, 42, 106}

Calls ==
    [height : 1..MaxHeight, days_back : DaysBackValues,
     chart_type : ChartTypes, show_x_axis : BOOLEAN]

NoCall == [height |-> 0, days_back |-> 0, chart_type |-> "all", show_x_axis |-> FALSE]

(***************************************************************************)
(* The state machine.                                                      *)
(***************************************************************************)
\* no formatting function has been applied
NotFormatted == [fn |-> "none", str |-> <<>>]

\* claude-usage.py: main() has not started
IdleMonitor ==
    /\ monitor = 0
    /\ monitor_pc = "idle"
    /\ clock = 0
    /\ now = 0
    /\ next_refresh_time = 0
    /\ command = "none"
    /\ event = "none"
    /\ last_refresh = 0
    /\ last_kind = "none"
    /\ prev_kind = "none"
    /\ prev_refresh = 0

UnchangedMonitor ==
    UNCHANGED <<monitor, monitor_pc, clock, now, next_refresh_time, command,
                event, last_refresh, last_kind, prev_kind, prev_refresh>>

\* before any call of print_stacked_bar_chart
IdleChart ==
    /\ pc = "idle"
    /\ call = NoCall
    /\ axis = <<>>
    /\ sorted_times = <<>>
    /\ breakdown_data = <<>>
    /\ totals = <<>>
    /\ min_value = 0
    /\ max_rounded = 0
    /\ max_value = 0
    /\ scaled_breakdown = <<>>
    /\ chart_columns = <<>>
    /\ daily_totals = <<>>
    /\ out = <<>>
    /\ seen = <<>>

Init ==
    /\ \E log \in UsageLogs :
          time_series = CalculateTokenBreakdownTimeSeries(log)
    /\ IdleChart
    /\ format_value = 0
    /\ formatted = NotFormatted
    /\ IdleMonitor

\* a call that returns before line 47: its locals, and the mapping as it was
NoChart ==
    /\ sorted_times' = <<>>
    /\ breakdown_data' = <<>>
    /\ totals' = <<>>
    /\ min_value' = 0
    /\ max_rounded' = 0
    /\ max_value' = 0
    /\ scaled_breakdown' = <<>>
    /\ chart_columns' = InitialColumns
    /\ daily_totals' = <<>>
    /\ time_series' = time_series

\* line 43 with 1 in place of 2
TooShortBelowOne(ax) == Len(ax) < 1

\* line 43
TooShort(ax) == Len(ax) < 2

\* lines 28-41: the hourly axis of the window
WindowAxis(ts, days_back) ==
    HourlyAxis(TruncateToHour(StartTime(LastTime(ts), days_back)), LastTime(ts))

\* lines 51 and 122-255: what is printed before the first row
HeadLines(c, axis_len, chart_width, daily) ==
    (IF axis_len > MaxColumns THEN <<AdjustNote(axis_len)>> ELSE <<>>)
    \o TitleLines(c.chart_type, c.show_x_axis)
    \o <<RuleLine(chart_width)>>
    \o HeaderLines(daily)

\* print_stacked_bar_chart(time_series, c.height, c.days_back, c.chart_type,
\* c.show_x_axis), the whole call.  Each list is built once, as the code
\* builds it (s \o <<>> is the sequence s, computed), and read from then on.
Chart(c) ==
    /\ call' = c
    /\ UNCHANGED <<format_value, formatted>>
    /\ UnchangedMonitor
    /\ axis' = IF DOMAIN time_series = {} THEN <<>>
               ELSE WindowAxis(time_series, c.days_back) \o <<>>
    /\ IF DOMAIN time_series = {}
         THEN /\ out' = <<NoSeriesMessage>>
              /\ pc' = "returned"
              /\ NoChart
       ELSE IF Cardinality(DOMAIN time_series) = 0
         THEN /\ out' = <<NoDataMessage>>
              /\ pc' = "returned"
              /\ NoChart
       ELSE IF TooShort(axis')
         THEN /\ out' = <<NotEnoughMessage>>
              /\ pc' = "returned"
              /\ NoChart
       ELSE
         /\ sorted_times' = Resample(axis') \o <<>>
         /\ time_series' = SeriesAfterLookups(time_series, sorted_times')
         /\ breakdown_data' = [i \in 1..Len(sorted_times') |->
                                 BreakdownAt(time_series, sorted_times'[i])] \o <<>>
         /\ totals' = [i \in 1..Len(sorted_times') |->
                         Total(breakdown_data'[i], c.chart_type)] \o <<>>
         /\ min_value' = MinValue(totals')
         /\ max_rounded' = RoundTo5Multiple(RawMax(totals'), TRUE)
         /\ max_value' = MaxValue(totals')
         /\ scaled_breakdown' =
                [i \in 1..Len(sorted_times') |->
                    ScaledBreakdown(breakdown_data'[i],
                                    min_value', max_value', c.height)] \o <<>>
         /\ chart_columns' =
                InitialColumns \o BuildColumns(sorted_times', 1, Len(sorted_times'))
         /\ daily_totals' = DailyTotals(chart_columns', sorted_times', totals')
         \* line 260 divides by chart_height - 1 in the first row it draws
         /\ IF c.height >= 1 /\ c.height - 1 = 0
              THEN /\ out' = HeadLines(c, Len(axis'), Len(chart_columns'),
                                    daily_totals')
                   /\ pc' = "ZeroDivisionError"
              ELSE /\ out' = HeadLines(c, Len(axis'), Len(chart_columns'),
                                    daily_totals')
                             \o BodyLines(chart_columns', scaled_breakdown',
                                          min_value', max_value', c.height,
                                          c.chart_type)
                             \o <<XAxisLine(chart_columns')>>
                             \o TailLines(chart_columns', sorted_times',
                                          c.show_x_axis)
                   /\ pc' = "returned"

\* one call on a freshly aggregated series
Render ==
    /\ pc = "idle"
    /\ \E c \in Calls : Chart(c)
    /\ seen' = seen

Next == Render

Spec == Init /\ [][Next]_vars

(***************************************************************************)
(* Repeated calls on one series, as print_stats makes them                 *)
(* (claude-usage.py lines 71-74) and monitor mode repeats them.            *)
(***************************************************************************)
RepeatCalls == {c \in Calls : c.height = 2 /\ c.days_back = 1}

RenderAgain ==
    /\ Len(seen) + (IF pc = "idle" THEN 0 ELSE 1) < MaxRepeats
    /\ \E c \in RepeatCalls : Chart(c)
    /\ seen' = IF pc = "idle" THEN seen
               ELSE Append(seen, [call |-> call, out |-> out])

NextRepeat == RenderAgain

SpecRepeat == Init /\ [][NextRepeat]_vars

(***************************************************************************)
(* The formatting functions on their own (src/formatting.py): each is      *)
(* applied to a whole number of tokens.                                    *)
(***************************************************************************)
FormatValues ==
    {0, 5, 42, 999, 1125, 1234, 1375, 5000, 12345, 54321, 100000, 123456,
     999999, 1000000, 1234567, 5000000, 9949999, 9950000, 9960000, 9994999,
     9995000, 9999999, 10000000, 12345678, 99949999, 99950000, 99999999,
     100000000, 123456789, 999999999, 1000000000, 1234567890, 2000000000,
     2140000000}
    \cup (995..1005) \cup (9940..10005) \cup (99940..100005)

InitFormat ==
    /\ time_series = CalculateTokenBreakdownTimeSeries(<<>>)
    /\ IdleChart
    /\ format_value \in FormatValues
    /\ formatted = NotFormatted
    /\ IdleMonitor

UnchangedChart ==
    UNCHANGED <<time_series, pc, call, axis, sorted_times, breakdown_data,
                totals, min_value, max_rounded, max_value, scaled_breakdown,
                chart_columns,
                daily_totals, out, seen>>

\* format_y_axis_value(format_value)
FormatYAxis ==
    /\ formatted = NotFormatted
    /\ formatted' = [fn |-> "format_y_axis_value", str |-> FormatYAxisValue(format_value)]
    /\ format_value' = format_value
    /\ UnchangedChart
    /\ UnchangedMonitor

\* format_total_value(format_value)
FormatTotal ==
    /\ formatted = NotFormatted
    /\ formatted' = [fn |-> "format_total_value", str |-> FormatTotalValue(format_value)]
    /\ format_value' = format_value
    /\ UnchangedChart
    /\ UnchangedMonitor

NextFormat == FormatYAxis \/ FormatTotal

SpecFormat == InitFormat /\ [][NextFormat]_vars

(***************************************************************************)
(* main() of src/claude-usage.py, seen through its clock.  Time is counted *)
(* in ticks of a tenth of a second, the finest time the code names (the    *)
(* 0.1 of line 127); time.time() never goes back.  print_stats() takes     *)
(* time and prints; main() keeps nothing of what it returns.  Time passes  *)
(* only inside print_stats() and inside select().  KeyboardInterrupt is    *)
(* raised between any two steps of the try block.                          *)
(***************************************************************************)
TicksPerSecond == 10

\* the largest clock reading of the model
MaxClock == 32

\* args.monitor: 0 stands for every falsy value (option absent, or 0)
MonitorArgs == {0 - 1, 0, 1, 2}

\* how long one print_stats() call takes, in ticks
StatsTicks == {0, 4, 13}

\* how long after its timeout select() can return, in ticks
Overshoot == {0, 1}

\* the lines that can be read; "other" is any other non-empty line
Commands == {"/refresh", "/exit", "", "other"}

Min(a, b) == IF a <= b THEN a ELSE b

\* args.monitor in ticks
Interval == monitor * TicksPerSecond

\* lines 99, 122 and 141 with line 141 left out
NextRefreshTimeManualKept(kind, t) ==
    IF kind = "manual" THEN next_refresh_time ELSE t + Interval

\* lines 99, 122 and 141: time.time() + args.monitor after a refresh
NextRefreshTime(kind, t) == t + Interval

\* lines 126-127, in ticks
Timeout(deadline, t) == Min(TicksPerSecond, Max(1, deadline - t))

InitMonitor ==
    /\ time_series = CalculateTokenBreakdownTimeSeries(<<>>)
    /\ IdleChart
    /\ format_value = 0
    /\ formatted = NotFormatted
    /\ monitor \in MonitorArgs
    /\ monitor_pc = "idle"
    /\ clock = 0
    /\ now = 0
    /\ next_refresh_time = 0
    /\ command = "none"
    /\ event = "none"
    /\ last_refresh = 0
    /\ last_kind = "none"
    /\ prev_kind = "none"
    /\ prev_refresh = 0

UnchangedFormat == UNCHANGED <<format_value, formatted>>

\* print_stats() followed by the assignment of the deadline
Refresh(kind) ==
    /\ \E d \in StatsTicks :
          /\ clock + d <= MaxClock
          /\ clock' = clock + d
    /\ next_refresh_time' = NextRefreshTime(kind, clock')
    /\ last_refresh' = clock'
    /\ prev_kind' = last_kind
    /\ prev_refresh' = last_refresh
    /\ last_kind' = kind
    /\ event' = kind

\* lines 159-162: one-time execution
OneTime ==
    /\ monitor_pc = "idle"
    /\ monitor = 0
    /\ \E d \in StatsTicks : clock' = clock + d
    /\ monitor_pc' = "exited"
    /\ event' = "one_time"
    /\ UNCHANGED <<monitor, now, next_refresh_time, command, last_refresh,
                   last_kind, prev_kind, prev_refresh>>
    /\ UnchangedChart
    /\ UnchangedFormat

\* lines 85-107: the banner, the initial display and the first deadline
InitialDisplay ==
    /\ monitor_pc = "idle"
    /\ monitor # 0
    /\ Refresh("initial")
    /\ monitor_pc' = "top"
    /\ UNCHANGED <<monitor, now, command>>
    /\ UnchangedChart
    /\ UnchangedFormat

\* lines 110-111
ReadNow ==
    /\ monitor_pc = "top"
    /\ now' = clock
    /\ monitor_pc' = "check"
    /\ event' = "read_clock"
    /\ UNCHANGED <<monitor, clock, next_refresh_time, command, last_refresh,
                   last_kind, prev_kind, prev_refresh>>
    /\ UnchangedChart
    /\ UnchangedFormat

\* lines 114-123: the deadline has come
AutoRefresh ==
    /\ monitor_pc = "check"
    /\ now >= next_refresh_time
    /\ Refresh("auto")
    /\ monitor_pc' = "wait"
    /\ UNCHANGED <<monitor, now, command>>
    /\ UnchangedChart
    /\ UnchangedFormat

\* line 114: the deadline has not come
NoRefresh ==
    /\ monitor_pc = "check"
    /\ ~(now >= next_refresh_time)
    /\ monitor_pc' = "wait"
    /\ event' = "no_refresh"
    /\ UNCHANGED <<monitor, clock, now, next_refresh_time, command,
                   last_refresh, last_kind, prev_kind, prev_refresh>>
    /\ UnchangedChart
    /\ UnchangedFormat

\* lines 126-131: select() returns stdin within the timeout
InputReady ==
    /\ monitor_pc = "wait"
    /\ \E e \in 0..Timeout(next_refresh_time, clock) :
          /\ clock + e <= MaxClock
          /\ clock' = clock + e
    /\ monitor_pc' = "readline"
    /\ event' = "ready"
    /\ UNCHANGED <<monitor, now, next_refresh_time, command, last_refresh,
                   last_kind, prev_kind, prev_refresh>>
    /\ UnchangedChart
    /\ UnchangedFormat

\* lines 126-131: select() times out
TimedOut ==
    /\ monitor_pc = "wait"
    /\ \E o \in Overshoot :
          /\ clock + Timeout(next_refresh_time, clock) + o <= MaxClock
          /\ clock' = clock + Timeout(next_refresh_time, clock) + o
    /\ monitor_pc' = "top"
    /\ event' = "timed_out"
    /\ UNCHANGED <<monitor, now, next_refresh_time, command, last_refresh,
                   last_kind, prev_kind, prev_refresh>>
    /\ UnchangedChart
    /\ UnchangedFormat

\* lines 132-142: "/refresh"
ManualRefresh ==
    /\ monitor_pc = "readline"
    /\ command' = "/refresh"
    /\ Refresh("manual")
    /\ monitor_pc' = "top"
    /\ UNCHANGED <<monitor, now>>
    /\ UnchangedChart
    /\ UnchangedFormat

\* lines 132 and 143-146: "/exit"
ExitCommand ==
    /\ monitor_pc = "readline"
    /\ command' = "/exit"
    /\ monitor_pc' = "exited"
    /\ event' = "exit"
    /\ UNCHANGED <<monitor, clock, now, next_refresh_time, last_refresh,
                   last_kind, prev_kind, prev_refresh>>
    /\ UnchangedChart
    /\ UnchangedFormat

\* lines 132 and 147-152: an empty line or an unknown command
OtherCommand ==
    /\ monitor_pc = "readline"
    /\ \E cmd \in Commands \ {"/refresh", "/exit"} : command' = cmd
    /\ monitor_pc' = "top"
    /\ event' = "prompt"
    /\ UNCHANGED <<monitor, clock, now, next_refresh_time, last_refresh,
                   last_kind, prev_kind, prev_refresh>>
    /\ UnchangedChart
    /\ UnchangedFormat

\* lines 109 and 154-158: Ctrl+C inside the try block
Interrupt ==
    /\ monitor_pc \in {"top", "check", "wait", "readline"}
    /\ monitor_pc' = "stopped"
    /\ event' = "interrupt"
    /\ UNCHANGED <<monitor, clock, now, next_refresh_time, command,
                   last_refresh, last_kind, prev_kind, prev_refresh>>
    /\ UnchangedChart
    /\ UnchangedFormat

NextMonitor ==
    \/ OneTime
    \/ InitialDisplay
    \/ ReadNow
    \/ AutoRefresh
    \/ NoRefresh
    \/ InputReady
    \/ TimedOut
    \/ ManualRefresh
    \/ ExitCommand
    \/ OtherCommand
    \/ Interrupt

SpecMonitor == InitMonitor /\ [][NextMonitor]_vars

(***************************************************************************)
(* Properties.                                                             *)
(***************************************************************************)
Called == pc # "idle"

\* the call got past the checks of lines 17-45
Drawn == Called /\ Len(sorted_times) > 0

\* the call printed its chart and returned
Charted == pc = "returned" /\ Len(sorted_times) > 0

WindowStart == TruncateToHour(LastTime(time_series) - call.days_back * 1440)

SeparatorCount ==
    Cardinality({c \in 1..Len(chart_columns) :
                    chart_columns[c].type = "separator"})

\* the sum of the scaled heights of the categories the chart type stacks
ActiveSum(sb, chart_type) ==
    IF chart_type = "io" THEN sb.input + sb.output
    ELSE IF chart_type = "cache" THEN sb.cache_creation + sb.cache_read
    ELSE sb.input + sb.output + sb.cache_creation + sb.cache_read

\* data column i opens a calendar day other than the first of the series
OpensLaterDay(i) ==
    i > 1 /\ DayOf(sorted_times[i]) # DayOf(sorted_times[i - 1])

C2_ChartedWithinCap ==
    (Charted /\ Len(axis) > MaxColumns) => Len(sorted_times) <= MaxColumns

\* C3: the charted series spans [start, end] inclusive: its first point is
\* the window start and its last point is the latest key of the mapping,
\* whether or not it was downsampled.
C3_SpansStartToLatest ==
    Charted =>
        /\ sorted_times[1] = WindowStart
        /\ sorted_times[Len(sorted_times)] = LastTime(time_series)

\* C4: a call with an empty mapping, or with a window that yields fewer
\* than 2 axis points, prints exactly one message and returns normally; no
\* title, header, grid or axis line is printed.
C4_EarlyReturnPrintsOneMessage ==
    (Called /\ (DOMAIN time_series = {} \/ Len(axis) < 2)) =>
        /\ pc = "returned"
        /\ Len(out) = 1
        /\ out[1] \in {NoSeriesMessage, NotEnoughMessage}
        /\ chart_columns = <<>>

C4_Witness ==
    /\ pc = "returned"
    /\ DOMAIN time_series # {}
    /\ Len(axis) = 1
    /\ out = <<NotEnoughMessage>>

\* C5: for every accepted input (at least 2 axis points), every chart type
\* and every positive height the call runs to completion without raising.
C5_NeverRaises ==
    (Called /\ Len(axis) >= 2 /\ call.height >= 1) => pc = "returned"

\* C6: two calls with identical arguments on the same mapping, in any order
\* and with any other calls in between, print identical lines.
C6_SameCallSameOutput ==
    \A k \in 1..Len(seen) : seen[k].call = call => seen[k].out = out

C6_Witness ==
    /\ pc = "returned"
    /\ Len(seen) = 2
    /\ seen[1].call = call
    /\ seen[2].call # call
    /\ seen[1].out = out
    /\ Len(out) > 1

\* C7: after the widening step the Y-axis range satisfies
\* max_value > min_value, for every sequence of totals.
C7_MaxAboveMin ==
    Drawn => max_value > min_value

C7_Witness ==
    /\ Charted
    /\ min_value > 0
    /\ RoundTo5Multiple(RawMax(totals), TRUE) = min_value
    /\ max_value = min_value + WidenBy

\* C8: a separator column stands immediately before the first data column
\* of every calendar day of the charted series except the first day, also
\* when the series was downsampled, and nowhere else.
C8_SeparatorBeforeEveryLaterDay ==
    Charted =>
        \A c \in 1..Len(chart_columns) :
            IF chart_columns[c].type = "separator"
              THEN /\ c < Len(chart_columns)
                   /\ chart_columns[c + 1].type = "data"
                   /\ OpensLaterDay(chart_columns[c + 1].data)
              ELSE OpensLaterDay(chart_columns[c].data)
                      => /\ c > 1
                         /\ chart_columns[c - 1].type = "separator"

\* C9 as stated: a chart of a 10-day window has exactly 9 separators.
C9_NineSeparators ==
    (Charted /\ call.days_back = 10) => SeparatorCount = 9

\* C9 amended: a chart of a 10-day window (241 hourly points, no
\* downsampling) has exactly 10 separators, whatever hour of day the latest
\* bucket falls on.
C9_TenSeparators ==
    (Charted /\ call.days_back = 10) =>
        /\ Len(sorted_times) = 241
        /\ SeparatorCount = 10

C9_Witness ==
    /\ pc = "returned"
    /\ call.days_back = 10
    /\ DOMAIN time_series # {}
    /\ HourOf(LastTime(time_series)) = 0
    /\ SeparatorCount = 10

\* C10 as stated: in every data column the scaled heights of the active
\* categories sum to at most H-1, also when the rounded Y-axis minimum is
\* greater than zero.
C10_StackWithinBody ==
    Charted =>
        \A i \in 1..Len(scaled_breakdown) :
            ActiveSum(scaled_breakdown[i], call.chart_type) <= call.height - 1

\* C10 amended: when the rounded Y-axis minimum is zero, in every data
\* column the scaled heights of the active categories sum to at most H-1.
C10_StackWithinBodyFromZero ==
    (Charted /\ min_value = 0) =>
        \A i \in 1..Len(scaled_breakdown) :
            ActiveSum(scaled_breakdown[i], call.chart_type) <= call.height - 1

C10_Witness ==
    /\ pc = "returned"
    /\ min_value = 0
    /\ call.height >= 2
    /\ \E i \in 1..Len(scaled_breakdown) :
          /\ totals[i] = max_value
          /\ ActiveSum(scaled_breakdown[i], call.chart_type) >= 1

\* the offsets, counted from 0, at which ch occurs in the line of that kind
OffsetsIn(kind, ch) ==
    UNION {{i - 1 : i \in {j \in 1..Len(out[k].cells) : out[k].cells[j] = ch}} :
            k \in {n \in 1..Len(out) : out[n].kind = kind}}

\* C11: in both header lines every DayTotal's label is placed so that the
\* ':' of the weekday line and the '/' of the date line sit at the same
\* offset, and that offset is 7 + mid_col of the day; one ':' and one '/'
\* per day, for short first days and after labels placed without padding
\* too.
C11_LabelsAtMidpoint ==
    Charted =>
        /\ OffsetsIn("weekday", ":") = OffsetsIn("date", "/")
        /\ OffsetsIn("weekday", ":") =
              {7 + daily_totals[d].mid_col : d \in 1..Len(daily_totals)}

\* the lines of the chart body: the rows and the X-axis tick line
BodyRows == {k \in 1..Len(out) : out[k].kind \in {"row", "xaxis"}}

\* C12: every body row and the X-axis tick line have exactly as many cells
\* as there are ChartColumns, each ChartColumn (separator or data) taking
\* one character cell, for the chart types 'all', 'io' and 'cache'.
C12_OneCellPerColumn ==
    Charted =>
        \A k \in BodyRows :
            /\ Len(out[k].cells) = Len(chart_columns)
            /\ \A c \in 1..Len(out[k].cells) : VisibleWidth(out[k].cells[c]) = 1

\* C13: format_y_axis_value returns a string of exactly 5 characters for
\* every non-negative value of every tier, also for values that round up at
\* a tier boundary (9,960 or 9,960,000) and for values of a billion or more.
C13_FiveCharacters ==
    formatted.fn = "format_y_axis_value" => Len(formatted.str) = 5

\* the unit suffix a formatted total ends with, "" when it has none
SuffixOf(s) == IF s[Len(s)] \in {"K", "M", "B"} THEN s[Len(s)] ELSE ""

\* the digits printed after the decimal point
DecimalsOf(s) ==
    Cardinality({i \in 1..Len(s) :
                    /\ \E p \in 1..(i - 1) : s[p] = "."
                    /\ \E n \in 1..10 : DigitChars[n] = s[i]})

\* the digits of s read as one number, the decimal point skipped
RECURSIVE PrintedNumber(_, _)
PrintedNumber(s, n) ==
    IF n = 0 THEN 0
    ELSE IF \E k \in 1..10 : DigitChars[k] = s[n]
      THEN 10 * PrintedNumber(s, n - 1)
           + (CHOOSE k \in 0..9 : DigitChars[k + 1] = s[n])
    ELSE PrintedNumber(s, n - 1)

\* the power of ten of the tier of a value: 0, 3 (K), 6 (M) or 9 (B)
TierOf(v) ==
    IF v >= 1000000000 THEN 9 ELSE IF v >= 1000000 THEN 6
    ELSE IF v >= 1000 THEN 3 ELSE 0

Abs(x) == IF x < 0 THEN 0 - x ELSE x

\* C14: format_total_value picks the suffix by magnitude (none below 1,000,
\* K from 1,000, M from 1,000,000, B from 1e9) and prints the scaled value
\* with two decimals when it is below 10, one decimal when it is 10 to 99
\* and as an integer when it is 100 or more; the printed number is the
\* scaled value rounded to those decimals (cut to a whole number in the
\* integer form); 1234567 gives "1.23M", 12345 gives "12.3K", 999 gives
\* "999".
C14_TotalSuffixAndDecimals ==
    formatted.fn = "format_total_value" =>
        \A a \in {TierOf(format_value)} :
        \A d \in {DecimalsOf(formatted.str)} :
        \A n \in {PrintedNumber(formatted.str, Len(formatted.str))} :
            /\ SuffixOf(formatted.str) =
                  (IF a = 9 THEN "B" ELSE IF a = 6 THEN "M"
                   ELSE IF a = 3 THEN "K" ELSE "")
            /\ d = (IF a = 0 \/ format_value \div Pow(10, a) >= 100 THEN 0
                    ELSE IF format_value \div Pow(10, a) >= 10 THEN 1
                    ELSE 2)
            /\ Cardinality({i \in 1..Len(formatted.str) :
                              \A k \in 1..10 : DigitChars[k] # formatted.str[i]})
                  = (IF d > 0 THEN 1 ELSE 0) + (IF a > 0 THEN 1 ELSE 0)
            /\ IF d = 0
                 THEN n = format_value \div Pow(10, a)
                 ELSE 2 * Abs(n * Pow(10, a - d) - format_value) <= Pow(10, a - d)
            /\ format_value = 1234567 => formatted.str = <<"1", ".", "2", "3", "M">>
            /\ format_value = 12345 => formatted.str = <<"1", "2", ".", "3", "K">>
            /\ format_value = 999 => formatted.str = <<"9", "9", "9">>

C14_Witness ==
    /\ formatted.fn = "format_total_value"
    /\ format_value = 1234567
    /\ formatted.str = <<"1", ".", "2", "3", "M">>

\* C15: when the generated axis has more than 500 points the charted
\* series is exactly the axis elements at indices 0, stride, 2*stride, ...
\* with stride = max(1, floor(length / 500)): it starts at index 0, keeps
\* the order and a spacing of stride hours; an axis of 500 or fewer points
\* is charted unchanged.
C15_StrideSelection ==
    Drawn =>
        IF Len(axis) > 500
          THEN \A stride \in {Max(1, Len(axis) \div 500)} :
                 /\ Len(sorted_times) = (Len(axis) + stride - 1) \div stride
                 /\ \A k \in 1..Len(sorted_times) :
                       sorted_times[k] = axis[(k - 1) * stride + 1]
                 /\ \A k \in 2..Len(sorted_times) :
                       sorted_times[k] - sorted_times[k - 1] = 60 * stride
          ELSE sorted_times = axis

C15_Witness ==
    /\ pc = "returned"
    /\ Len(axis) = 2545
    /\ Len(sorted_times) = 509
    /\ sorted_times[1] = axis[1]
    /\ sorted_times[2] = axis[6]

\* the rounding unit of a value; the token counts of the model are below
\* 2^31, where the tier of 5e9 is out of reach
UnitFor(v) == IF v >= 5000000 THEN 5000000 ELSE IF v >= 5000 THEN 5000 ELSE 5

TotalsSet == {totals[i] : i \in 1..Len(totals)}

CategoryOf(piece) ==
    IF piece = "cyan_full" THEN "input"
    ELSE IF piece = "green_dark" THEN "output"
    ELSE IF piece = "orange_medium" THEN "cache_creation"
    ELSE IF piece \in {"full", "full_light"} THEN "cache_read"
    ELSE "blank"

\* the categories a chart type stacks, bottom first
StackOrder(chart_type) ==
    IF chart_type = "io" THEN <<"input", "output">>
    ELSE IF chart_type = "cache" THEN <<"cache_creation", "cache_read">>
    ELSE <<"input", "output", "cache_creation", "cache_read">>

\* the summed scaled heights of the first n categories of the order
RECURSIVE Cumulative(_, _, _)
Cumulative(order, sb, n) ==
    IF n = 0 THEN 0 ELSE Cumulative(order, sb, n - 1) + sb[order[n]]

\* the first category of the order whose cumulative height exceeds row r
BandAt(order, sb, r) ==
    IF \E n \in 1..Len(order) : Cumulative(order, sb, n) > r
      THEN order[SetMin({n \in 1..Len(order) : Cumulative(order, sb, n) > r})]
      ELSE "blank"

RowLines == SelectSeq(out, LAMBDA l : l.kind = "row")

\* C17: in every data column each row shows exactly one category glyph or
\* a blank, the bands lying one on another from row 0 in the order input,
\* output, cache_creation, cache_read: row r shows the first stacked
\* category whose cumulative scaled height exceeds r, else a blank.  An
\* 'io' chart stacks only input and output, a 'cache' chart only
\* cache_creation and cache_read from row 0; the hidden heights add nothing.
C17_BandsInStackOrder ==
    Charted =>
        \A rows \in {RowLines} :
            /\ Len(rows) = call.height
            /\ \A j \in 1..Len(rows) :
               \A c \in 1..Len(chart_columns) :
                  chart_columns[c].type = "data" =>
                      CategoryOf(rows[j].cells[c]) =
                          BandAt(StackOrder(call.chart_type),
                                 scaled_breakdown[chart_columns[c].data],
                                 call.height - j)

C17_Witness ==
    /\ pc = "returned"
    /\ call.chart_type = "cache"
    /\ call.height = 3
    /\ \E c \in 1..Len(chart_columns) :
          /\ chart_columns[c].type = "data"
          /\ scaled_breakdown[chart_columns[c].data].input >= 1
          /\ scaled_breakdown[chart_columns[c].data].cache_creation = 1
          /\ scaled_breakdown[chart_columns[c].data].cache_read >= 1
          /\ RowLines[3].cells[c] = "orange_medium"
          /\ RowLines[2].cells[c] = "full"

\* the column indices, counted from 0, that hold a separator
SeparatorIdx ==
    {c - 1 : c \in {k \in 1..Len(chart_columns) :
                        chart_columns[k].type = "separator"}}

\* the first column of every maximal run of data columns
RunStarts(seps) ==
    {i \in 0..(Len(chart_columns) - 1) :
        i \notin seps /\ (i = 0 \/ (i - 1) \in seps)}

\* one past the last column of the run that starts at column i
RunEnd(i, seps) ==
    CHOOSE p \in seps \cup {Len(chart_columns)} :
        p > i /\ \A q \in seps : ~(i < q /\ q < p)

\* f[lo] + ... + f[hi]
RECURSIVE SumRange(_, _, _)
SumRange(f, lo, hi) ==
    IF lo > hi THEN 0
    ELSE IF lo = hi THEN f[lo]
    ELSE SumRange(f, lo, (lo + hi) \div 2) + SumRange(f, (lo + hi) \div 2 + 1, hi)

\* C18: there is exactly one DayTotal per maximal run of data columns
\* between separators (so one more than there are separators); its total is
\* the sum of the totals of the run's data columns, its timestamp that of
\* the run's first data column, its midpoint
\* floor((first column + one-past-last column) / 2), a column of the run;
\* the DayTotals' totals add up to the sum of all charted totals.
C18_OneDayTotalPerRun ==
    Charted =>
        \A seps \in {SeparatorIdx} :
            /\ Len(daily_totals) = Cardinality(seps) + 1
            /\ Len(daily_totals) = Cardinality(RunStarts(seps))
            /\ \A i \in RunStarts(seps) :
               \A e \in {RunEnd(i, seps)} :
                  /\ Cardinality({d \in 1..Len(daily_totals) :
                        daily_totals[d].day_start =
                            sorted_times[chart_columns[i + 1].data]}) = 1
                  /\ \E d \in 1..Len(daily_totals) :
                        /\ daily_totals[d].day_start =
                              sorted_times[chart_columns[i + 1].data]
                        /\ daily_totals[d].total =
                              SumRange(totals, chart_columns[i + 1].data,
                                       chart_columns[e].data)
                        /\ daily_totals[d].mid_col = (i + e) \div 2
                        /\ i <= daily_totals[d].mid_col
                        /\ daily_totals[d].mid_col < e
            /\ SumRange([d \in 1..Len(daily_totals) |-> daily_totals[d].total],
                        1, Len(daily_totals))
                  = SumRange(totals, 1, Len(totals))

C18_Witness ==
    /\ pc = "returned"
    /\ Len(daily_totals) = 3
    /\ SeparatorCount = 2
    /\ daily_totals[1].mid_col = 5
    /\ daily_totals[1].total > 0
    /\ daily_totals[2].total > daily_totals[1].total
    /\ daily_totals[3].total > 0

LabelLines == SelectSeq(out, LAMBDA l : l.kind = "labels")

\* column c is a data column whose timestamp's hour is 6, 12 or 18
Labelled(c) ==
    /\ chart_columns[c].type = "data"
    /\ HourOf(sorted_times[chart_columns[c].data]) \in {6, 12, 18}

\* character j of the hour of column c written with two digits
HourChar(c, j) ==
    IF j = 1
      THEN DigitChars[(HourOf(sorted_times[chart_columns[c].data]) \div 10) + 1]
      ELSE DigitChars[(HourOf(sorted_times[chart_columns[c].data]) % 10) + 1]

\* nothing is printed below the X-axis tick line
NothingBelowAxis ==
    /\ out[Len(out)].kind = "xaxis"
    /\ \A k \in 1..Len(out) : out[k].kind \notin {"labels", "span"}
    /\ \A k \in 1..Len(out) : out[k] # Text("Legend")

\* C19 as stated: with show_x_axis true the two-digit hour of every data
\* column at hour 6, 12 or 18 is printed downwards below that column, one
\* character per label line, and every other column of a label line is
\* blank; with show_x_axis false no label line and no summary is printed.
C19_LabelOrBlank ==
    Charted =>
        IF call.show_x_axis
          THEN \A lines \in {LabelLines} :
                 /\ Len(lines) =
                       (IF \E c \in 1..Len(chart_columns) : Labelled(c)
                          THEN 2 ELSE 0)
                 /\ \A j \in 1..Len(lines) :
                       /\ Len(lines[j].cells) = Len(chart_columns)
                       /\ \A c \in 1..Len(chart_columns) :
                             lines[j].cells[c] =
                                 (IF Labelled(c) THEN HourChar(c, j) ELSE " ")
          ELSE NothingBelowAxis

\* C19 amended: with show_x_axis true the two-digit hour of every data
\* column at hour 6, 12 or 18 is printed downwards below that column, one
\* character per label line; every other data column of a label line is
\* blank and every separator column shows the divider "|"; with show_x_axis
\* false no label line and no summary is printed.
C19_LabelBlankOrDivider ==
    Charted =>
        IF call.show_x_axis
          THEN \A lines \in {LabelLines} :
                 /\ Len(lines) =
                       (IF \E c \in 1..Len(chart_columns) : Labelled(c)
                          THEN 2 ELSE 0)
                 /\ \A j \in 1..Len(lines) :
                       /\ Len(lines[j].cells) = Len(chart_columns)
                       /\ \A c \in 1..Len(chart_columns) :
                             lines[j].cells[c] =
                                 (IF Labelled(c) THEN HourChar(c, j)
                                  ELSE IF chart_columns[c].type = "separator"
                                    THEN "|"
                                  ELSE " ")
          ELSE NothingBelowAxis

C19_Witness ==
    /\ pc = "returned"
    /\ call.show_x_axis
    /\ Len(LabelLines) = 2
    /\ \E c \in 1..Len(chart_columns) :
          /\ Labelled(c)
          /\ LabelLines[1].cells[c] = "1"
          /\ LabelLines[2].cells[c] = "8"
    /\ \E c \in 1..Len(chart_columns) :
          /\ chart_columns[c].type = "separator"
          /\ LabelLines[1].cells[c] = "|"
    /\ \E c \in 1..Len(chart_columns) :
          /\ ~Labelled(c)
          /\ LabelLines[2].cells[c] = " "

\* C20: print_stacked_bar_chart leaves the caller's time_series as it was:
\* no render, whatever its parameters and however many came before it, adds
\* or removes a key or changes a bucket's values, also when the window
\* covers hours that have no bucket in the mapping.
C20_SeriesUnchanged == [][time_series' = time_series]_vars

C20_Witness ==
    /\ pc = "returned"
    /\ Len(seen) >= 1
    /\ DOMAIN time_series # {}
    /\ \E i \in 1..Len(sorted_times) :
          /\ sorted_times[i] \notin DOMAIN time_series
          /\ breakdown_data[i] = ZeroBreakdown
    /\ \E i \in 1..Len(sorted_times) : sorted_times[i] \in DOMAIN time_series

\* the step is a refresh: the initial display, an AUTO-REFRESH or "/refresh"
RefreshStep == event' \in {"initial", "auto", "manual"}

\* the deadline after a refresh is INTERVAL seconds after its completion
DeadlineSet == RefreshStep => next_refresh_time' = clock' + Interval

\* an AUTO-REFRESH fires on a reading at least INTERVAL seconds after the
\* completion of the most recent refresh of any kind
NotEarly == event' = "auto" => now - last_refresh >= Interval

\* the loop iteration has read a clock at or past the deadline
Due == monitor_pc = "check" /\ now >= next_refresh_time

\* C21: in monitor mode every refresh (the initial display, an AUTO-REFRESH
\* or "/refresh") sets the deadline to INTERVAL seconds after its
\* completion, so an AUTO-REFRESH never fires less than INTERVAL seconds
\* after the most recent refresh of any kind, and the first loop iteration
\* whose clock reading is at or past the deadline fires it ("/exit" ends
\* the loop, so no iteration follows it).
C21_DeadlineAfterEveryRefresh ==
    [][DeadlineSet /\ NotEarly /\ (Due => event' = "auto")]_vars

\* C21 amended: as C21, but the iteration whose clock reading is at or past
\* the deadline fires the AUTO-REFRESH unless Ctrl+C (KeyboardInterrupt)
\* ends monitor mode before the comparison of line 114.
C21_DeadlineUnlessInterrupted ==
    [][DeadlineSet /\ NotEarly
       /\ ((Due /\ event' # "interrupt") => event' = "auto")]_vars

\* an AUTO-REFRESH has just fired on the deadline that a "/refresh" set,
\* exactly INTERVAL seconds after that refresh completed
C21_Witness ==
    /\ monitor > 0
    /\ event = "auto"
    /\ prev_kind = "manual"
    /\ now = prev_refresh + Interval
    /\ monitor_pc = "wait"

====
